---- MODULE Spec2Model ----
(***************************************************************************)
(* ScheduledTask (src/index.ts, lines 1-250): one recurring task guarded   *)
(* by a capacity-1 semaphore and a minimum-interval gate, with a           *)
(* start/stop lifecycle on top of an external cron trigger.                *)
(*                                                                         *)
(* Time is an integer clock `now` (Date.now()), advanced by Tick.  Every   *)
(* action is one synchronous segment of JavaScript: a public method call,  *)
(* or the continuation of runTask after one of its two awaits.             *)
(***************************************************************************)
EXTENDS Integers, Sequences, FiniteSets

\* ---------------------------------------------------------------- bounds
MaxCalls == 3
MaxInterval == 1
MaxTicks == 2

Calls == 1..MaxCalls
\* The clock starts at MaxInterval, so that lastRunMillis = 0 ("never run")
\* leaves the gate open for every interval of the model, as epoch 0 does.
StartTime == MaxInterval
MaxTime == StartTime + MaxTicks
Times == 0..MaxTime
Intervals == 0..MaxInterval

\* Schedules by what the trigger does with them: "daily" is the default of
\* the class and is accepted; "invalid" makes scheduleJob return null;
\* "noNext" is accepted but has no next invocation.
Schedules == {"daily", "invalid", "noNext"}

VARIABLES
  now,                    \* Date.now()
  lastRunMillis,          \* #lastRunMillis
  minimumIntervalMillis,  \* #minimumIntervalMillis
  catchErrors,            \* #catchErrors
  taskHasStarted,         \* #taskHasStarted
  job,                    \* #job: "undefined", "null", or the registration's state
  schedule,               \* #schedule
  exitHookIsInitialized,  \* #exitHookIsInitialized
  exitHooks,              \* number of callbacks handed to exitHook()
  semaphore,              \* #semaphore: [free: token available, waiting: queue of calls]
  pc,                     \* position of each runTask call
  before,                 \* getLastRunMillis() when the call was made (kept while the
                          \* call is in progress and no setter has interfered)
  lastStart,              \* when taskFunction was last invoked; -1: never, or overridden since
  lastDone,               \* when a run of taskFunction last completed; -1: never, or
                          \* lastRunMillis was overridden since
  tainted,                \* a setter ran while a runTask call was in progress
  everStopped,            \* a stopTask call has succeeded
  ret                     \* the last step: what ran (op), what it raised (err), its value (val)

vars == <<now, lastRunMillis, minimumIntervalMillis, catchErrors, taskHasStarted,
          job, schedule, exitHookIsInitialized, exitHooks, semaphore, pc, before,
          lastStart, lastDone, tainted, everStopped, ret>>

lifecycleVars == <<taskHasStarted, job, schedule, exitHookIsInitialized, exitHooks>>
runVars == <<semaphore, pc, before>>
ghostVars == <<lastStart, lastDone, tainted, everStopped>>

Ret(op, err, val) == [op |-> op, err |-> err, val |-> val]

InProgress(c) == pc[c] \in {"waiting", "acquired", "working"}
Quiescent == \A c \in Calls : ~InProgress(c)

\* ------------------------------------------------------------ the run gate

\* Date.now() - this.#lastRunMillis >= this.#minimumIntervalMillis
\* (faulty variants: a strict comparison; no check at all)
GateOpen_strict(t, last, min) == t - last > min
GateOpen_always(t, last, min) == TRUE
GateOpen(t, last, min) == t - last >= min

\* this.#semaphore.nrWaiting(): the length of the wait queue, the holder excluded
\* (faulty variant: the holder counted as well)
NrWaiting_holder == Len(semaphore.waiting) + (IF semaphore.free THEN 0 ELSE 1)
NrWaiting == Len(semaphore.waiting)

CanRunTask ==
  NrWaiting = 0 /\ GateOpen(now, lastRunMillis, minimumIntervalMillis)

\* Sema.acquire(): take the token if there is one, else join the queue.
\* (faulty variant: every caller is let through)
Acquired_noMutex(sem, c) == [sem EXCEPT !.free = FALSE]
Acquired_lifo(sem, c) ==
  IF sem.free THEN [sem EXCEPT !.free = FALSE]
  ELSE [sem EXCEPT !.waiting = <<c>> \o @]
Acquired(sem, c) ==
  IF sem.free THEN [sem EXCEPT !.free = FALSE]
  ELSE [sem EXCEPT !.waiting = Append(@, c)]

\* Sema.release(): hand the token to the first waiter, else put it back.
Woken(sem) == IF sem.waiting = <<>> THEN 0 ELSE Head(sem.waiting)
Released_held(sem) == sem
Released(sem) ==
  IF sem.waiting = <<>> THEN [sem EXCEPT !.free = TRUE]
  ELSE [sem EXCEPT !.waiting = Tail(@)]

\* pc after call c left the critical section: the waiter that release()
\* resolved continues from the await of acquire().
AfterRelease_sync(c) ==
  [d \in Calls |->
     IF d = c THEN "done"
     ELSE IF d = Woken(semaphore)
     THEN (IF GateOpen(now, lastRunMillis, minimumIntervalMillis) THEN "working" ELSE "done")
     ELSE pc[d]]
AfterRelease(c) ==
  [d \in Calls |->
     IF d = c THEN "done"
     ELSE IF d = Woken(semaphore) THEN "acquired"
     ELSE pc[d]]

Init ==
  /\ now = StartTime
  /\ lastRunMillis \in Times
  /\ minimumIntervalMillis \in Intervals
  /\ catchErrors \in BOOLEAN
  /\ schedule \in Schedules
  /\ \/ /\ taskHasStarted = FALSE          \* options.startTask absent or false
        /\ job = "undefined"
        /\ exitHookIsInitialized = FALSE
        /\ exitHooks = 0
     \/ /\ schedule = "daily"              \* options.startTask: the constructor returned
        /\ taskHasStarted = TRUE
        /\ job = "scheduled"
        /\ exitHookIsInitialized = TRUE
        /\ exitHooks = 1
  /\ semaphore = [free |-> TRUE, waiting |-> <<>>]
  /\ pc = [c \in Calls |-> "idle"]
  /\ before = [c \in Calls |-> 0]
  /\ lastStart = -1
  /\ lastDone = -1
  /\ tainted = FALSE
  /\ everStopped = FALSE
  /\ ret = Ret("new", "none", FALSE)

\* ------------------------------------------------------------------ clock
Tick ==
  /\ now < MaxTime
  /\ now' = now + 1
  /\ ret' = Ret("tick", "none", FALSE)
  /\ UNCHANGED <<lastRunMillis, minimumIntervalMillis, catchErrors,
                 lifecycleVars, runVars, ghostVars>>

\* ------------------------------------------------------------ setters

\* Bookkeeping of a successful setter call: one made while a runTask call is in
\* progress breaks the caller's side of the contract for those calls.
Tainted == tainted \/ ~Quiescent
Forget(b) == IF Quiescent THEN b ELSE [c \in Calls |-> 0]

\* setLastRunMillis(v), and setLastRunTime(date) with v = date.getTime()
SetLastRunMillis(v) ==
  /\ lastRunMillis' = v
  /\ lastStart' = -1
  /\ lastDone' = -1
  /\ tainted' = Tainted
  /\ before' = Forget(before)
  /\ ret' = Ret("setLastRunMillis", "none", FALSE)
  /\ UNCHANGED <<now, minimumIntervalMillis, catchErrors, lifecycleVars, semaphore, pc,
                 everStopped>>

\* if (this.#taskHasStarted) throw alreadyStartedError
\* (faulty variant: the guard left out)
ConfigLocked_never == FALSE
ConfigLocked_halted == taskHasStarted \/ everStopped
ConfigLocked == taskHasStarted

SetMinimumIntervalMillis_writeFirst(v) ==
  IF ConfigLocked
  THEN /\ minimumIntervalMillis' = v
       /\ ret' = Ret("setMinimumIntervalMillis", "alreadyStarted", FALSE)
       /\ UNCHANGED <<now, lastRunMillis, catchErrors, lifecycleVars, runVars, ghostVars>>
  ELSE /\ minimumIntervalMillis' = v
       /\ lastStart' = -1
       /\ UNCHANGED lastDone
       /\ tainted' = Tainted
       /\ before' = Forget(before)
       /\ ret' = Ret("setMinimumIntervalMillis", "none", FALSE)
       /\ UNCHANGED <<now, lastRunMillis, catchErrors, lifecycleVars, semaphore, pc,
                      everStopped>>
SetMinimumIntervalMillis(v) ==
  IF ConfigLocked
  THEN /\ ret' = Ret("setMinimumIntervalMillis", "alreadyStarted", FALSE)
       /\ UNCHANGED <<now, lastRunMillis, minimumIntervalMillis, catchErrors,
                      lifecycleVars, runVars, ghostVars>>
  ELSE /\ minimumIntervalMillis' = v
       /\ lastStart' = -1
       /\ UNCHANGED lastDone
       /\ tainted' = Tainted
       /\ before' = Forget(before)
       /\ ret' = Ret("setMinimumIntervalMillis", "none", FALSE)
       /\ UNCHANGED <<now, lastRunMillis, catchErrors, lifecycleVars, semaphore, pc,
                      everStopped>>

SetSchedule(s) ==
  IF ConfigLocked
  THEN /\ ret' = Ret("setSchedule", "alreadyStarted", FALSE)
       /\ UNCHANGED <<now, lastRunMillis, minimumIntervalMillis, catchErrors,
                      lifecycleVars, runVars, ghostVars>>
  ELSE /\ schedule' = s
       /\ ret' = Ret("setSchedule", "none", FALSE)
       /\ UNCHANGED <<now, lastRunMillis, minimumIntervalMillis, catchErrors,
                      taskHasStarted, job, exitHookIsInitialized, exitHooks,
                      runVars, ghostVars>>

\* ---------------------------------------------------------- canRunTask
CanRunTaskCall ==
  /\ ret' = Ret("canRunTask", "none", CanRunTask)
  /\ UNCHANGED <<now, lastRunMillis, minimumIntervalMillis, catchErrors,
                 lifecycleVars, runVars, ghostVars>>

\* ------------------------------------------------------------- runTask

\* runTask() up to its first await: await this.#semaphore.acquire()
Enter(c, op) ==
  /\ pc[c] = "idle"
  /\ IF c = 1 THEN TRUE ELSE pc[c - 1] # "idle"   \* calls are numbered in the order made
  /\ semaphore' = Acquired(semaphore, c)
  /\ pc' = [pc EXCEPT ![c] =
              IF Len(semaphore'.waiting) > Len(semaphore.waiting)
              THEN "waiting" ELSE "acquired"]
  /\ before' = [before EXCEPT ![c] = IF tainted THEN 0 ELSE lastRunMillis]
  /\ ret' = Ret(op, "none", FALSE)
  /\ UNCHANGED <<now, lastRunMillis, minimumIntervalMillis, catchErrors,
                 lifecycleVars, ghostVars>>

\* a manual call of runTask()
ManualRun_started(c) == taskHasStarted /\ Enter(c, "runTask")
ManualRun(c) == Enter(c, "runTask")

\* the trigger fires the callback given to scheduleJob: async () => { await this.runTask() }
TriggerFire(c) ==
  /\ job = "scheduled"
  /\ Enter(c, "fire")

\* After acquire(): the interval is sufficient, taskRun = true and taskFunction is invoked.
RunWork(c) ==
  /\ pc[c] = "acquired"
  /\ GateOpen(now, lastRunMillis, minimumIntervalMillis)
  /\ pc' = [pc EXCEPT ![c] = "working"]
  /\ lastStart' = now
  /\ ret' = Ret("run", "none", lastStart >= 0)
  /\ UNCHANGED <<now, lastRunMillis, minimumIntervalMillis, catchErrors,
                 lifecycleVars, semaphore, before, lastDone, tainted, everStopped>>

\* After acquire(): the interval is insufficient; finally releases, taskRun is false.
SkipRun_records(c) ==
  /\ pc[c] = "acquired"
  /\ ~GateOpen(now, lastRunMillis, minimumIntervalMillis)
  /\ semaphore' = Released(semaphore)
  /\ pc' = AfterRelease(c)
  /\ lastRunMillis' = now
  /\ before' = [before EXCEPT ![c] = 0]
  /\ tainted' = (tainted /\ \E d \in Calls : InProgress(d)')
  /\ ret' = Ret("skip", "none", FALSE)
  /\ UNCHANGED <<now, minimumIntervalMillis, catchErrors,
                 lifecycleVars, lastStart, lastDone, everStopped>>
SkipRun(c) ==
  /\ pc[c] = "acquired"
  /\ ~GateOpen(now, lastRunMillis, minimumIntervalMillis)
  /\ semaphore' = Released(semaphore)
  /\ pc' = AfterRelease(c)
  /\ before' = [before EXCEPT ![c] = 0]
  /\ tainted' = (tainted /\ \E d \in Calls : InProgress(d)')
  /\ ret' = Ret("skip", "none", FALSE)
  /\ UNCHANGED <<now, lastRunMillis, minimumIntervalMillis, catchErrors,
                 lifecycleVars, lastStart, lastDone, everStopped>>

\* finally: release() (line 161) runs before setLastRunTime (line 164). Does the
\* finishing call still hold the permit when it records the time? After
\* release() the permit is free again or belongs to the call release() woke.
\* (faulty variant: the time recorded before release())
PermitHeldAtRecord_first == ~semaphore.free
PermitHeldAtRecord == ~Released(semaphore).free /\ Woken(semaphore) = 0

\* How a run whose taskFunction settled ends: ok, or raised and caught, or raised and rethrown.
Outcome_rethrow(ok) == IF ok THEN "executed" ELSE "rejected"
Outcome(ok) ==
  IF ok THEN "executed" ELSE IF catchErrors THEN "swallowed" ELSE "rejected"

\* The value runTask's finally block leaves in #lastRunMillis when taskRun is true.
\* (faulty variant: the completion time is not recorded)
RecordedLastRun_keep(t, last) == last
RecordedLastRun(t, last) == t

\* taskFunction settled (ok: it returned, ~ok: it raised): catch, then finally:
\* release(), and since taskRun is true, setLastRunTime(new Date()).  release()
\* resolves the first waiter's promise synchronously, but the waiter resumes in a
\* later microtask, after this segment has recorded lastRunMillis.  A taskFunction
\* that raises synchronously takes the same path, right after RunWork.
FinishWork(c, ok) ==
  /\ pc[c] = "working"
  /\ semaphore' = Released(semaphore)
  /\ pc' = AfterRelease(c)
  /\ lastRunMillis' = RecordedLastRun(now, lastRunMillis)
  /\ before' = [before EXCEPT ![c] = 0]
  /\ tainted' = (tainted /\ \E d \in Calls : InProgress(d)')
  /\ ret' = Ret(Outcome(ok), IF Outcome(ok) = "rejected" THEN "taskError" ELSE "none", FALSE)
  /\ lastDone' = now
  /\ UNCHANGED <<now, minimumIntervalMillis, catchErrors, lifecycleVars, lastStart,
                 everStopped>>

\* ------------------------------------------------------------ lifecycle

\* nodeSchedule.scheduleJob(name, schedule, callback), by what the trigger does
\* with the schedule: null, a job without a next invocation, or a live job.
ScheduleJob(s) ==
  IF s = "invalid" THEN "null" ELSE IF s = "noNext" THEN "noNext" ELSE "scheduled"

\* this.#job?.cancel()
\* (faulty variant: the registration is left alone)
Cancelled_noop(j) == j
Cancelled(j) == IF j \in {"undefined", "null"} THEN j ELSE "cancelled"

\* startTask: if (this.#taskHasStarted) throw alreadyStartedError
\* (faulty variant: the guard left out)
\* if (!this.#exitHookIsInitialized) exitHook(...): the callbacks registered so far.
ExitHooksAfterStart_perStart(initialized, n) == n + 1
ExitHooksAfterStart(initialized, n) == IF initialized THEN n ELSE n + 1

StartRejected_never == FALSE
StartRejected == taskHasStarted

\* stopTask: if (!this.#taskHasStarted) throw new Error('Task has not started.')
StopRejected == ~taskHasStarted

StartTask ==
  IF StartRejected
  THEN /\ ret' = Ret("startTask", "alreadyStarted", FALSE)
       /\ UNCHANGED <<now, lastRunMillis, minimumIntervalMillis, catchErrors,
                      lifecycleVars, runVars, ghostVars>>
  ELSE /\ taskHasStarted' = TRUE
       /\ job' = ScheduleJob(schedule)
       /\ IF job' = "null"
          THEN /\ ret' = Ret("startTask", "scheduleFailed", FALSE)
               /\ UNCHANGED <<exitHookIsInitialized, exitHooks>>
          ELSE IF job' = "noNext"
          THEN /\ ret' = Ret("startTask", "noNextInvocation", FALSE)
               /\ UNCHANGED <<exitHookIsInitialized, exitHooks>>
          ELSE /\ ret' = Ret("startTask", "none", FALSE)
               /\ exitHookIsInitialized' = TRUE
               /\ exitHooks' = ExitHooksAfterStart(exitHookIsInitialized, exitHooks)
       /\ UNCHANGED <<now, lastRunMillis, minimumIntervalMillis, catchErrors,
                      schedule, runVars, ghostVars>>

StopTask_abort ==
  IF StopRejected
  THEN /\ ret' = Ret("stopTask", "notStarted", FALSE)
       /\ UNCHANGED <<now, lastRunMillis, minimumIntervalMillis, catchErrors,
                      lifecycleVars, runVars, ghostVars>>
  ELSE /\ job' = Cancelled(job)
       /\ taskHasStarted' = FALSE
       /\ everStopped' = TRUE
       /\ pc' = [c \in Calls |-> IF pc[c] = "working" THEN "done" ELSE pc[c]]
       /\ ret' = Ret("stopTask", "none", FALSE)
       /\ UNCHANGED <<now, lastRunMillis, minimumIntervalMillis, catchErrors,
                      schedule, exitHookIsInitialized, exitHooks, semaphore, before,
                      lastStart, lastDone, tainted>>
StopTask ==
  IF StopRejected
  THEN /\ ret' = Ret("stopTask", "notStarted", FALSE)
       /\ UNCHANGED <<now, lastRunMillis, minimumIntervalMillis, catchErrors,
                      lifecycleVars, runVars, ghostVars>>
  ELSE /\ job' = Cancelled(job)
       /\ taskHasStarted' = FALSE
       /\ everStopped' = TRUE
       /\ ret' = Ret("stopTask", "none", FALSE)
       /\ UNCHANGED <<now, lastRunMillis, minimumIntervalMillis, catchErrors,
                      schedule, exitHookIsInitialized, exitHooks, runVars,
                      lastStart, lastDone, tainted>>

\* ------------------------------------------------------- process exit

\* The process is running: its exit callbacks have not been called.
Alive == ret.op # "exit"

\* The process exits and exit-hook calls the callback startTask registered:
\* try { this.#job?.cancel() } catch { }. A cancel() that throws (fails)
\* leaves the job as it is, and the callback returns normally either way.
ExitHook(fails) ==
  /\ exitHookIsInitialized
  /\ job' = IF fails THEN job ELSE Cancelled(job)
  /\ ret' = Ret("exit", "none", fails)
  /\ UNCHANGED <<now, lastRunMillis, minimumIntervalMillis, catchErrors,
                 taskHasStarted, schedule, exitHookIsInitialized, exitHooks,
                 runVars, ghostVars>>

\* ------------------------------------------------------- specification
\* Nothing of the task runs once the process has exited.
Next ==
  \/ Alive /\ Tick
  \/ Alive /\ \E v \in Times : SetLastRunMillis(v)
  \/ Alive /\ \E v \in Intervals : SetMinimumIntervalMillis(v)
  \/ Alive /\ \E s \in Schedules : SetSchedule(s)
  \/ Alive /\ CanRunTaskCall
  \/ Alive /\ \E c \in Calls : ManualRun(c)
  \/ Alive /\ \E c \in Calls : TriggerFire(c)
  \/ Alive /\ \E c \in Calls : RunWork(c)
  \/ Alive /\ \E c \in Calls : SkipRun(c)
  \/ Alive /\ \E c \in Calls, ok \in BOOLEAN : FinishWork(c, ok)
  \/ Alive /\ StartTask
  \/ Alive /\ StopTask
  \/ Alive /\ \E fails \in BOOLEAN : ExitHook(fails)

Spec == Init /\ [][Next]_vars

TypeOK ==
  /\ now \in Times
  /\ lastRunMillis \in Times
  /\ minimumIntervalMillis \in Intervals
  /\ catchErrors \in BOOLEAN
  /\ taskHasStarted \in BOOLEAN
  /\ job \in {"undefined", "null", "noNext", "scheduled", "cancelled"}
  /\ schedule \in Schedules
  /\ exitHookIsInitialized \in BOOLEAN
  /\ exitHooks \in 0..1
  /\ semaphore.free \in BOOLEAN
  /\ pc \in [Calls -> {"idle", "waiting", "acquired", "working", "done"}]
  /\ before \in [Calls -> Times]
  /\ lastStart \in -1..MaxTime
  /\ lastDone \in -1..MaxTime
  /\ tainted \in BOOLEAN
  /\ everStopped \in BOOLEAN

\* ---------------------------------------------------------------- claims

Working == {c \in Calls : pc[c] = "working"}
Completions == {"executed", "swallowed", "rejected", "skip"}

\* C1: at most one invocation of taskFunction is in flight in every reachable
\* state, whatever mix of trigger firings and manual runTask calls overlaps.
C1_MutualExclusion == Cardinality(Working) <= 1

\* A taskFunction invocation is in flight while another runTask call queues on the permit.
C1_Witness == \E c, d \in Calls : pc[c] = "working" /\ pc[d] = "waiting"

\* C2: when taskFunction is invoked and its previous invocation is comparable
\* (no setter call and no change of the interval since it started), it starts
\* at least minimumIntervalMillis after the previous one started.
C2_MinimumSpacing ==
  [][\A c \in Calls :
       (pc[c] = "acquired" /\ pc'[c] = "working" /\ lastStart >= 0)
         => now - lastStart >= minimumIntervalMillis]_vars

\* A second, comparable invocation has just started under a positive interval.
C2_Witness == ret.op = "run" /\ ret.val /\ minimumIntervalMillis > 0

\* C3: a runTask call holding the permit invokes taskFunction if and only if
\* Date.now() - lastRunMillis >= minimumIntervalMillis at that moment: a call
\* that ran found the interval elapsed, a call that skipped found it not elapsed.
C3_AuthoritativeGate ==
  /\ ret.op = "run" => now - lastRunMillis >= minimumIntervalMillis
  /\ ret.op = "skip" => now - lastRunMillis < minimumIntervalMillis

\* After an invocation, a later call is skipped because the interval has not elapsed.
C3_Witness ==
  /\ ret.op = "skip"
  /\ lastDone >= 0
  /\ now > lastStart
  /\ lastStart >= 0

\* C4 as claimed: canRunTask returns true iff no runTask call holds the permit
\* or waits for it and the interval has elapsed.
C4_AsClaimed ==
  ret.op = "canRunTask" =>
    (ret.val <=> (Quiescent /\ now - lastRunMillis >= minimumIntervalMillis))

\* C4 amended: canRunTask returns true iff no runTask call is waiting for the
\* permit and the interval has elapsed; a call that holds the permit, with
\* taskFunction in flight or not, does not make it false.
C4_CanRunTask ==
  ret.op = "canRunTask" =>
    (ret.val <=> ( /\ \A c \in Calls : pc[c] # "waiting"
                   /\ now - lastRunMillis >= minimumIntervalMillis ))

\* canRunTask returned true while taskFunction was in flight.
C4_Witness == ret.op = "canRunTask" /\ ret.val /\ Working # {}

\* C5: with a positive interval canRunTask is false in the state a runTask call
\* completes in, and it is true once the interval has elapsed since the last
\* completed run of taskFunction with no runTask call in progress.
C5_CanRunAfterRun ==
  /\ (ret.op \in Completions /\ minimumIntervalMillis > 0) => ~CanRunTask
  /\ ( /\ ret.op = "canRunTask"
       /\ minimumIntervalMillis > 0
       /\ Quiescent
       /\ lastDone >= 0 )
       => (ret.val <=> now - lastDone >= minimumIntervalMillis)

\* canRunTask returned true after a completed run, once the interval had elapsed.
C5_Witness ==
  /\ ret.op = "canRunTask"
  /\ ret.val
  /\ minimumIntervalMillis > 0
  /\ Quiescent
  /\ lastDone >= 0

\* A runTask call whose taskFunction returned leaves the critical section,
\* the caller having kept the setters away from the runs in progress.
Executes(c) ==
  pc[c] = "working" /\ pc'[c] = "done" /\ ret'.op = "executed" /\ ~tainted

\* C6 as claimed: after a runTask call that invoked taskFunction and completed
\* successfully, lastRunMillis is strictly greater than it was before the call.
C6_AsClaimed ==
  [][\A c \in Calls : Executes(c) => lastRunMillis' > before[c]]_vars

\* C6 amended: after such a call lastRunMillis is not smaller than before the
\* call, and it is strictly greater when minimumIntervalMillis > 0; with a zero
\* interval a run within the millisecond of lastRunMillis leaves it unchanged.
C6_LastRunAdvances ==
  [][\A c \in Calls :
       Executes(c) =>
         /\ lastRunMillis' >= before[c]
         /\ minimumIntervalMillis > 0 => lastRunMillis' > before[c]]_vars

\* A run has completed successfully in the millisecond lastRunMillis already held.
C6_Witness ==
  /\ ret.op = "executed"
  /\ lastStart >= 0
  /\ lastRunMillis = lastStart
  /\ minimumIntervalMillis = 0

\* C7: startTask on a started task raises; stopTask on a task that is not
\* started (never started, or stopped already) raises.
C7_LifecycleMisuse ==
  [][ /\ (ret'.op = "startTask" /\ taskHasStarted)
           => (ret'.err = "alreadyStarted" /\ UNCHANGED lifecycleVars)
      /\ (ret'.op = "stopTask" /\ ~taskHasStarted)
           => (ret'.err = "notStarted" /\ UNCHANGED lifecycleVars) ]_vars

\* A second stopTask, after the one that cancelled the registration, was rejected.
C7_Witness ==
  /\ ret.op = "stopTask"
  /\ ret.err = "notStarted"
  /\ job = "cancelled"

\* C8: before the task is started setMinimumIntervalMillis and setSchedule
\* succeed and store their argument; while it is started they raise and leave
\* minimumIntervalMillis and schedule as they were.
C8_ConfigSetters ==
  [][ /\ \A v \in Intervals :
           (ret'.op = "setMinimumIntervalMillis" /\ SetMinimumIntervalMillis(v)) =>
             IF taskHasStarted
             THEN ret'.err = "alreadyStarted"
                  /\ UNCHANGED <<minimumIntervalMillis, schedule>>
             ELSE ret'.err = "none" /\ minimumIntervalMillis' = v
      /\ \A s \in Schedules :
           (ret'.op = "setSchedule" /\ SetSchedule(s)) =>
             IF taskHasStarted
             THEN ret'.err = "alreadyStarted"
                  /\ UNCHANGED <<minimumIntervalMillis, schedule>>
             ELSE ret'.err = "none" /\ schedule' = s ]_vars

\* setMinimumIntervalMillis was rejected on a started task.
C8_Witness ==
  /\ ret.op = "setMinimumIntervalMillis"
  /\ ret.err = "alreadyStarted"
  /\ taskHasStarted

\* C9 as claimed: from the halted state (stopped, registration cancelled) no
\* step makes hasStarted() true again.
C9_AsClaimed ==
  [][(~taskHasStarted /\ job = "cancelled") => ~taskHasStarted']_vars

\* C9 amended: a successful stopTask leaves the task not started with no live
\* registration, and a task that is not started becomes started only by a
\* startTask call, which is accepted again after a stop.
C9_RestartOnlyByStart ==
  [][ /\ (ret'.op = "stopTask" /\ ret'.err = "none")
           => (~taskHasStarted' /\ job' \notin {"scheduled", "noNext"})
      /\ (~taskHasStarted /\ taskHasStarted') => ret'.op = "startTask" ]_vars

\* A stopTask has succeeded and cancelled the registration.
C9_Witness ==
  /\ ret.op = "stopTask"
  /\ ret.err = "none"
  /\ job = "cancelled"
  /\ ~taskHasStarted

\* C10: when the trigger rejects the schedule or reports no next invocation,
\* startTask raises and the task is still not started.
C10_FailedStartStaysIdle ==
  (ret.op = "startTask" /\ ret.err \in {"scheduleFailed", "noNextInvocation"})
    => ~taskHasStarted

\* ------------------------------------------------------------ C11 .. C20

\* C11: with catchErrors false, a runTask call whose taskFunction raises
\* rejects with that error, and the step that produces the rejection has
\* already released the permit: it is free again, or handed to the first
\* queued call; with no call queued, the next runTask acquires it at once.
C11_RejectsAfterRelease ==
  [][\A c \in Calls :
       /\ (FinishWork(c, FALSE) /\ ~catchErrors) =>
            /\ ret'.op = "rejected" /\ ret'.err = "taskError"
            /\ pc'[c] = "done"
            /\ \/ semaphore'.free
               \/ \E d \in Calls : pc[d] = "waiting" /\ pc'[d] = "acquired"
       /\ (ret.op = "rejected" /\ Quiescent /\ pc[c] = "idle" /\ pc'[c] # "idle") =>
            pc'[c] = "acquired"]_vars

\* A run has just been rejected with the task's error and the permit is free.
C11_Witness ==
  ret.op = "rejected" /\ ret.err = "taskError" /\ ~catchErrors /\ semaphore.free /\ Quiescent

\* C12 as stated: with catchErrors false, the step in which a run rejects
\* leaves lastRunMillis as it was.
C12_AsClaimed ==
  [][\A c \in Calls :
       (FinishWork(c, FALSE) /\ ~catchErrors) => lastRunMillis' = lastRunMillis]_vars

\* C12: with catchErrors false, a runTask call whose taskFunction raises still
\* records the time of the failure in lastRunMillis, as every executed run does.
C12_FailedRunRecorded ==
  [][\A c \in Calls :
       (FinishWork(c, FALSE) /\ ~catchErrors) =>
         (ret'.op = "rejected" /\ lastRunMillis' = now)]_vars

\* A run that took time was rejected and lastRunMillis is the time of the rejection.
C12_Witness ==
  ret.op = "rejected" /\ lastRunMillis = now /\ lastStart >= 0 /\ lastStart < now

\* C13: with catchErrors true, a runTask call whose taskFunction raises
\* completes without an error and sets lastRunMillis to the completion time.
C13_SwallowedRunRecorded ==
  [][\A c \in Calls :
       (FinishWork(c, FALSE) /\ catchErrors) =>
         /\ ret'.op = "swallowed" /\ ret'.err = "none"
         /\ pc'[c] = "done"
         /\ lastRunMillis' = now]_vars

\* A failure was swallowed and lastRunMillis is the completion time.
C13_Witness ==
  ret.op = "swallowed" /\ ret.err = "none" /\ catchErrors /\ lastRunMillis = now

\* C14 as stated: once a stopTask call has succeeded, no trigger firing calls
\* runTask any more.
C14_AsClaimed == [][everStopped => ret'.op # "fire"]_vars

\* C14: a successful stopTask cancels the job, and while the task stays
\* stopped no trigger firing calls runTask; firings resume only when a later
\* startTask schedules a new job.
C14_NoFiringWhileStopped ==
  [][/\ (ret'.op = "stopTask" /\ ret'.err = "none") =>
          (job' # "scheduled" /\ ~taskHasStarted')
     /\ (everStopped /\ ~taskHasStarted) => ret'.op # "fire"]_vars

\* The task was stopped, its job is cancelled, and runTask was called by hand.
C14_Witness ==
  everStopped /\ ~taskHasStarted /\ job = "cancelled" /\ ret.op = "runTask"

\* The steps of runTask, by the value they leave in ret.
RunOps == {"runTask", "fire", "run", "skip", "executed", "swallowed", "rejected"}
\* Call c may be made now (calls are numbered in the order they are made).
Callable(c) == pc[c] = "idle" /\ (IF c = 1 THEN TRUE ELSE pc[c - 1] # "idle")
\* Call c takes the gate decision in this step.
Decides(c) == pc[c] = "acquired" /\ pc'[c] \in {"working", "done"}

\* C15 as stated: no step of runTask changes taskHasStarted, schedule or
\* minimumIntervalMillis, and its gate decision does not depend on the value
\* of minimumIntervalMillis either (it is the same for every interval).
C15_AsClaimed ==
  [][/\ ret'.op \in RunOps =>
          UNCHANGED <<taskHasStarted, schedule, minimumIntervalMillis>>
     /\ \A c \in Calls : Decides(c) =>
          \A v \in Intervals : (pc'[c] = "working" <=> GateOpen(now, lastRunMillis, v))]_vars

\* C15: runTask can be called in every lifecycle state, no step of it changes
\* taskHasStarted, job, schedule or minimumIntervalMillis, and its gate
\* decision is a function of the clock, lastRunMillis and
\* minimumIntervalMillis alone (it reads minimumIntervalMillis, nothing of the lifecycle).
C15_LifecycleIndependent ==
  /\ [](\A c \in Calls : Callable(c) => ENABLED ManualRun(c))
  /\ [][/\ ret'.op \in RunOps =>
             UNCHANGED <<taskHasStarted, job, schedule, minimumIntervalMillis>>
        /\ \A c \in Calls :
             Decides(c) =>
               (pc'[c] = "working" <=> now - lastRunMillis >= minimumIntervalMillis)]_vars

\* taskFunction was invoked on a task that had been stopped.
C15_Witness == ret.op = "run" /\ everStopped /\ ~taskHasStarted

\* C16: when no runTask call is in progress the permit is free and nobody
\* queues on it, and a queued call always has a call ahead of it that holds
\* the permit.
C16_PermitReleased ==
  /\ Quiescent => (semaphore.free /\ semaphore.waiting = <<>>)
  /\ (\E c \in Calls : pc[c] = "waiting") =>
       (\E d \in Calls : pc[d] \in {"acquired", "working"})

\* Every call has finished, the last one just now, and the permit is free.
C16_Witness ==
  /\ \A c \in Calls : pc[c] = "done"
  /\ ret.op \in Completions
  /\ semaphore.free

\* The continuation of call c: the gate decision once it holds the permit,
\* and the end of the taskFunction invocation it awaits.
Progress(c) == RunWork(c) \/ SkipRun(c) \/ \E ok \in BOOLEAN : FinishWork(c, ok)

\* The event loop runs every continuation that is ready, and every
\* taskFunction invocation settles.
FairSpec == Spec /\ \A c \in Calls : WF_vars(Progress(c))

\* C17: when every taskFunction invocation finishes, every runTask call that
\* was made eventually completes, however many calls queue on the permit.
C17_EveryCallCompletes == \A c \in Calls : InProgress(c) ~> (pc[c] = "done")

\* The last call of a full queue gets the permit from the call that just finished.
C17_Witness ==
  /\ pc[MaxCalls] = "acquired"
  /\ \A c \in Calls \ {MaxCalls} : pc[c] = "done"
  /\ ret.op \in Completions

\* C18: queued runTask calls get the permit in the order they were made: the
\* call that release() wakes is the earliest one waiting, and a call is in or
\* past its critical section only when every earlier call has finished its own.
C18_FifoOrder ==
  [][\A c \in Calls :
       /\ (pc[c] = "waiting" /\ pc'[c] = "acquired") =>
            \A d \in Calls : pc[d] = "waiting" => c <= d
       /\ pc'[c] \in {"acquired", "working", "done"} =>
            \A d \in Calls : d < c => pc'[d] = "done"]_vars

\* Calls 2 and 3 queued behind call 1; call 1 just finished and call 2, the
\* earlier of the two, has the permit while call 3 still waits.
C18_Witness ==
  /\ pc[1] = "done" /\ pc[2] = "acquired" /\ pc[3] = "waiting"
  /\ ret.op \in Completions

\* C19: a runTask call that the interval check skips goes from the check
\* straight to its end: taskFunction is not invoked and lastRunMillis keeps
\* its value.
C19_SkipLeavesLastRun ==
  [][\A c \in Calls :
       (pc[c] = "acquired" /\ pc'[c] = "done") =>
         /\ ret'.op = "skip" /\ ret'.err = "none"
         /\ ~GateOpen(now, lastRunMillis, minimumIntervalMillis)
         /\ lastRunMillis' = lastRunMillis
         /\ lastStart' = lastStart /\ lastDone' = lastDone]_vars

\* A call was skipped while lastRunMillis lies ahead of the clock.
C19_Witness == ret.op = "skip" /\ lastRunMillis > now /\ Quiescent

\* C20: stopTask leaves every runTask call where it was, the one whose
\* taskFunction is in flight included; that invocation can still settle, and
\* when it does on the stopped task it records the completion time and
\* releases the permit as any executed run does.
C20_StopLeavesRunInFlight ==
  /\ [](\A c \in Calls :
          pc[c] = "working" => ENABLED (\E ok \in BOOLEAN : FinishWork(c, ok)))
  /\ [][/\ ret'.op = "stopTask" => UNCHANGED <<pc, semaphore, lastRunMillis>>
        /\ \A c \in Calls :
             (pc[c] = "working" /\ pc'[c] = "done" /\ ~taskHasStarted) =>
               /\ ret'.op \in {"executed", "swallowed", "rejected"}
               /\ lastRunMillis' = now
               /\ \/ semaphore'.free
                  \/ \E d \in Calls : pc[d] = "waiting" /\ pc'[d] = "acquired"]_vars

\* stopTask has just succeeded while a taskFunction invocation is in flight.
C20_Witness == ret.op = "stopTask" /\ ret.err = "none" /\ Working # {}

\* ------------------------------------------------------------ C21 .. C26

\* C21: a call that raises alreadyStartedError (startTask and the two setters
\* on a started task) or 'Task has not started.' (stopTask) changes nothing:
\* the started flag, the schedule, the minimum interval, lastRunMillis, the
\* job, the exit hook and the permit with its queue are as before the call.
C21_RejectionsLeaveState ==
  [][ret'.err \in {"alreadyStarted", "notStarted"} =>
       /\ ret'.op \in {"startTask", "stopTask", "setMinimumIntervalMillis", "setSchedule"}
       /\ UNCHANGED <<taskHasStarted, schedule, minimumIntervalMillis, lastRunMillis,
                      job, exitHookIsInitialized, exitHooks, semaphore, pc>>]_vars

\* setSchedule was rejected on a started task while a taskFunction invocation is in flight.
C21_Witness ==
  ret.op = "setSchedule" /\ ret.err = "alreadyStarted" /\ Working # {}

\* C22 as stated: once the task has been started the setters raise
\* alreadyStartedError and change nothing, after a stopTask as well.
C22_AsClaimed ==
  [][(ret'.op \in {"setMinimumIntervalMillis", "setSchedule"}
        /\ (taskHasStarted \/ everStopped)) =>
       /\ ret'.err = "alreadyStarted"
       /\ UNCHANGED <<minimumIntervalMillis, schedule>>]_vars

\* C22: the setters raise alreadyStartedError exactly while the task is
\* started; after a stopTask they succeed again and store their argument.
C22_SettersFollowStartedFlag ==
  [][/\ ret'.op \in {"setMinimumIntervalMillis", "setSchedule"} =>
          (ret'.err = "alreadyStarted" <=> taskHasStarted)
     /\ \A v \in Intervals :
          (everStopped /\ ~taskHasStarted /\ ret'.op = "setMinimumIntervalMillis"
             /\ SetMinimumIntervalMillis(v)) =>
            (ret'.err = "none" /\ minimumIntervalMillis' = v)
     /\ \A sch \in Schedules :
          (everStopped /\ ~taskHasStarted /\ ret'.op = "setSchedule"
             /\ SetSchedule(sch)) =>
            (ret'.err = "none" /\ schedule' = sch)]_vars

\* setSchedule succeeded on a task that had been started and stopped.
C22_Witness ==
  ret.op = "setSchedule" /\ ret.err = "none" /\ everStopped /\ ~taskHasStarted

\* C23: however often the task is started and stopped, at most one exit
\* callback is registered; when the process exits the callback returns
\* without an error, and unless cancel() itself failed the job is not live
\* afterwards.
C23_ExitHookOnce ==
  /\ exitHooks <= 1
  /\ exitHookIsInitialized <=> exitHooks = 1
  /\ ret.op = "exit" =>
       /\ ret.err = "none"
       /\ ~ret.val => job \notin {"scheduled", "noNext"}

\* The task was started, stopped and started again, one callback is
\* registered, and at exit it cancelled the job of the second start.
C23_Witness ==
  /\ ret.op = "exit" /\ ~ret.val
  /\ everStopped /\ taskHasStarted
  /\ exitHooks = 1 /\ job = "cancelled"

\* Call c leaves its taskFunction invocation in this step (finally runs).
Finishes(c) == pc[c] = "working" /\ pc'[c] = "done"

C25_NextHolderSeesRecord ==
  [][\A c \in Calls :
       /\ Finishes(c) =>
            \A d \in Calls \ {c} :
              pc'[d] # pc[d] =>
                (pc[d] = "waiting" /\ pc'[d] = "acquired" /\ lastRunMillis' = now)
       /\ (Decides(c) /\ lastDone >= 0) =>
            (pc'[c] = "working" <=> now - lastDone >= minimumIntervalMillis)]_vars

\* A run just finished, the call it woke holds the permit, and the interval
\* check it is about to take fails against the time just recorded.
C25_Witness ==
  /\ ret.op \in {"executed", "swallowed", "rejected"}
  /\ lastDone = now
  /\ \E d \in Calls : pc[d] = "acquired"
  /\ ~GateOpen(now, lastRunMillis, minimumIntervalMillis)

\* C26: while taskHasStarted is false no job of the task is live, and a step
\* in which the job callback calls runTask is taken only on a started task.
C26_NotStartedNoJob ==
  /\ ~taskHasStarted => job \in {"undefined", "null", "cancelled"}
  /\ ret.op = "fire" => taskHasStarted

\* The job callback called runTask after the task had been stopped and started again.
C26_Witness == ret.op = "fire" /\ everStopped /\ taskHasStarted /\ job = "scheduled"

====
